---------------------------- MODULE Spec2Model ----------------------------
(***************************************************************************)
(* Model of the configurable command server of src/src/index.ts            *)
(* (class ConfigurableCommandServer): the tools/call request handler, the  *)
(* parameter validator, the template substitution with its sanitizer, the  *)
(* path sandbox, the rate limiter and the command executor with the events *)
(* of its child process.                                                   *)
(*                                                                         *)
(* Strings are sequences of one-character strings ("NUL" stands for the    *)
(* null byte and "BACKTICK" for the backtick), so that prefix tests,       *)
(* character classes and path normalisation are computed as the code       *)
(* computes them.                                                          *)
(***************************************************************************)
EXTENDS Integers, Sequences, FiniteSets, TLC

VARIABLES
    configFile,   \* what the file at configPath holds: an index of Configs, or Unreadable
    requests,     \* how many requests the client still sends
    startPc,      \* where start() is: "loading", "loaded", then "connected"
    advertised,   \* the answer to the last tools/list request
    config,       \* this.config: NoConfig (null) before loadConfiguration, then an index of Configs
    now,          \* the clock read by Date.now()
    cwd,          \* process.cwd(), which path.resolve prepends to relative paths
    rateLimiter,  \* this.rateLimiter: Map from user id to its list of timestamps
    calls,        \* the tool calls in progress or answered, by call id
    nextId,       \* the id the next tools/call request gets
    ticks,        \* how many times the clock has advanced
    admitLog,     \* history: the clock value of every call checkRateLimit admitted
    fnIn,         \* input of the function under test (function-level specifications)
    fnOut         \* its output, NotRun before it ran

vars == <<configFile, requests, startPc, advertised, config, now, cwd, rateLimiter, calls, nextId, ticks, admitLog, fnIn, fnOut>>

\* the function under test has not run
NotRun == [ran |-> FALSE]
\* no tools/list request was answered yet
NotListed == [listed |-> FALSE, tools |-> <<>>]
\* no input: the specification is not one of a single function
NoInput == [none |-> TRUE]

(***************************************************************************)
(* Bounds of the model.                                                    *)
(***************************************************************************)
MaxRequests == 1     \* tools/call requests sent to a server with several tools
MaxCalls == 3        \* tools/call requests sent to a server that only echoes
MaxTicks == 2        \* clock advances in one behaviour
MaxBytes == 2        \* bytes a child process writes over both streams
MaxStrLen == 2       \* length of the strings given to the sanitizer
MaxPathLen == 4      \* length of the paths given to the sandbox check
MaxTokens == 2       \* tokens of the templates given to the substitution
MaxOverlap == 2      \* tools/call requests handled at the same time

(***************************************************************************)
(* Strings.                                                                *)
(***************************************************************************)
RECURSIVE SeqsUpTo(_, _)
SeqsUpTo(S, n) ==
    IF n = 0 THEN {<<>>}
    ELSE LET shorter == SeqsUpTo(S, n - 1)
         IN  shorter \cup {Append(s, c) : s \in {t \in shorter : Len(t) = n - 1}, c \in S}

Range(s) == {s[i] : i \in 1..Len(s)}

\* String.prototype.startsWith
startsWith(s, prefix) ==
    /\ Len(prefix) <= Len(s)
    /\ \A i \in 1..Len(prefix) : s[i] = prefix[i]

(***************************************************************************)
(* sanitizeParameter: the character class of its regular expression        *)
(* (semicolon, ampersand, bar, backtick, dollar, less-than, greater-than   *)
(* and backslash: the four backslashes of the literal are two escaped      *)
(* backslashes inside the class), then the null-byte test.                 *)
(***************************************************************************)
dangerous == {";", "&", "|", "BACKTICK", "$", "<", ">", "\\"}

Ok(v) == [ok |-> TRUE, value |-> v, error |-> "", about |-> <<>>]
Err(kind, about) == [ok |-> FALSE, value |-> <<>>, error |-> kind, about |-> about]

\* sanitizeParameter without its null-byte test
sanitizeParameterNoNullTest(value) ==
    IF \E i \in 1..Len(value) : value[i] \in dangerous
    THEN Err("DangerousCharacter", value)
    ELSE Ok(value)

sanitizeParameter(value) ==
    IF \E i \in 1..Len(value) : value[i] \in dangerous
    THEN Err("DangerousCharacter", value)
    ELSE IF \E i \in 1..Len(value) : value[i] = "NUL"
    THEN Err("NullByte", <<>>)
    ELSE Ok(value)

(***************************************************************************)
(* path.resolve (POSIX) of one argument: a relative path is taken from     *)
(* the working directory; "." and empty segments are dropped, ".." drops   *)
(* the segment before it (and nothing at the root); the result is          *)
(* absolute and carries no trailing slash.                                 *)
(***************************************************************************)
RECURSIVE SplitSlash(_, _, _)
\* the segments of s between slashes, cur being the segment being read
SplitSlash(s, cur, acc) ==
    IF s = <<>> THEN Append(acc, cur)
    ELSE IF Head(s) = "/" THEN SplitSlash(Tail(s), <<>>, Append(acc, cur))
    ELSE SplitSlash(Tail(s), Append(cur, Head(s)), acc)

RECURSIVE NormalizeSegments(_, _)
NormalizeSegments(segs, acc) ==
    IF segs = <<>> THEN acc
    ELSE LET seg == Head(segs)
         IN  IF seg = <<>> \/ seg = <<".">> THEN NormalizeSegments(Tail(segs), acc)
             ELSE IF seg = <<".", ".">>
             THEN NormalizeSegments(Tail(segs),
                                    IF acc = <<>> THEN acc ELSE SubSeq(acc, 1, Len(acc) - 1))
             ELSE NormalizeSegments(Tail(segs), Append(acc, seg))

RECURSIVE JoinSlash(_)
JoinSlash(segs) ==
    IF segs = <<>> THEN <<>> ELSE <<"/">> \o Head(segs) \o JoinSlash(Tail(segs))

path_resolve(base, p) ==
    LET full == IF p # <<>> /\ Head(p) = "/" THEN p ELSE base \o <<"/">> \o p
        segs == NormalizeSegments(SplitSlash(full, <<>>, <<>>), <<>>)
    IN  IF segs = <<>> THEN <<"/">> ELSE JoinSlash(segs)

(***************************************************************************)
(* isPathAllowed: some allowed directory, resolved, is a string prefix of  *)
(* the resolved path.                                                      *)
(***************************************************************************)
\* isPathAllowed comparing with the allowed directories as they are written
isPathAllowedUnresolved(base, dir, allowedDirs) ==
    LET resolvedDir == path_resolve(base, dir)
    IN  \E i \in 1..Len(allowedDirs) : startsWith(resolvedDir, allowedDirs[i])

isPathAllowed(base, dir, allowedDirs) ==
    LET resolvedDir == path_resolve(base, dir)
    IN  \E i \in 1..Len(allowedDirs) :
            startsWith(resolvedDir, path_resolve(base, allowedDirs[i]))


(***************************************************************************)
(* Values of the arguments of a call, tagged with their JavaScript type.   *)
(* All values have the same fields; an array holds strings.                *)
(***************************************************************************)
Str(s) == [t |-> "string", s |-> s, n |-> 0, a |-> <<>>]
Num(n) == [t |-> "number", s |-> <<>>, n |-> n, a |-> <<>>]
Bool(b) == [t |-> "boolean", s |-> <<>>, n |-> IF b THEN 1 ELSE 0, a |-> <<>>]
Arr(a) == [t |-> "array", s |-> <<>>, n |-> 0, a |-> a]

\* the empty argument mapping
NoArgs == [k \in {} |-> Str(<<>>)]

\* a value taken as a condition: "", 0 and false are falsy, every array is truthy
Truthy(v) ==
    CASE v.t = "string" -> v.s # <<>>
      [] v.t = "number" -> v.n # 0
      [] v.t = "boolean" -> v.n = 1
      [] OTHER -> TRUE

RECURSIVE Digits(_)
Digits(n) ==
    LET d == <<"0", "1", "2", "3", "4", "5", "6", "7", "8", "9">>[(n % 10) + 1]
    IN  IF n < 10 THEN <<d>> ELSE Append(Digits(n \div 10), d)

RECURSIVE JoinComma(_)
JoinComma(a) ==
    IF a = <<>> THEN <<>>
    ELSE IF Len(a) = 1 THEN a[1]
    ELSE a[1] \o <<",">> \o JoinComma(Tail(a))

\* String(value)
String(v) ==
    CASE v.t = "string" -> v.s
      [] v.t = "number" -> Digits(v.n)
      [] v.t = "boolean" -> IF v.n = 1 THEN <<"t", "r", "u", "e">> ELSE <<"f", "a", "l", "s", "e">>
      [] OTHER -> JoinComma(v.a)

(***************************************************************************)
(* A pattern is the source of a regular expression made of literal         *)
(* characters between an optional ^ and an optional $; RegExpTest is       *)
(* RegExp.prototype.test: a match anywhere in the value that the anchors   *)
(* allow.                                                                  *)
(***************************************************************************)
Pattern(start, lit, end) == [start |-> start, lit |-> lit, end |-> end]
NoPattern == Pattern(FALSE, <<>>, FALSE)

\* the source string is not empty
PatternTruthy(p) == p.start \/ p.end \/ p.lit # <<>>

\* a test that the literal of the pattern is the whole value
RegExpTestWhole(p, s) == s = p.lit

RegExpTest(p, s) ==
    \E i \in 1..(Len(s) + 1) :
        /\ i + Len(p.lit) - 1 <= Len(s)
        /\ \A j \in 1..Len(p.lit) : s[i + j - 1] = p.lit[j]
        /\ p.start => i = 1
        /\ p.end => i + Len(p.lit) - 1 = Len(s)

(***************************************************************************)
(* ToolConfigSchema and ConfigSchema, after zod filled in the defaults.    *)
(* The parameters are kept in the order of Object.entries.                 *)
(***************************************************************************)
\* parameters.<key>.items: the item type, and in a tools.json a pattern too
NoItems == [present |-> FALSE, type |-> "", hasPattern |-> FALSE, pattern |-> NoPattern]
Items(type, hasPattern, pattern) ==
    [present |-> TRUE, type |-> type, hasPattern |-> hasPattern, pattern |-> pattern]

Param(key, type, required, hasDefault, default, pattern) ==
    [key |-> key, type |-> type, required |-> required,
     hasDefault |-> hasDefault, default |-> default, pattern |-> pattern,
     items |-> NoItems]
WithItems(param, items) == [param EXCEPT !.items = items]

\* a template token is a sequence of literal pieces and {name} placeholders
Lit(text) == [ph |-> FALSE, text |-> text, name |-> ""]
Ph(name) == [ph |-> TRUE, text |-> <<>>, name |-> name]

Tool(name, command, args, parameters, hasDirs, dirs, timeout, maxOutputSize) ==
    [name |-> name, command |-> command, args |-> args, parameters |-> parameters,
     hasAllowedDirectories |-> hasDirs, allowedDirectories |-> dirs,
     timeout |-> timeout, maxOutputSize |-> maxOutputSize]

NoSecurity ==
    [present |-> FALSE, hasAllowedCommands |-> FALSE, allowedCommands |-> <<>>,
     maxExecutionsPerMinute |-> 0]
Security(hasAllowed, allowed, maxPerMinute) ==
    [present |-> TRUE, hasAllowedCommands |-> hasAllowed, allowedCommands |-> allowed,
     maxExecutionsPerMinute |-> maxPerMinute]

Config(tools, security) == [tools |-> tools, security |-> security]

\* ConfigSchema.parse: a zod object keeps the keys of its schema only, and
\* the schema of items has the key type alone
ParseItems(items) == [items EXCEPT !.hasPattern = FALSE, !.pattern = NoPattern]
ParseTool(tool) ==
    [tool EXCEPT !.parameters =
        [j \in DOMAIN tool.parameters |->
            [tool.parameters[j] EXCEPT !.items = ParseItems(@)]]]
ConfigSchemaParse(raw) ==
    [raw EXCEPT !.tools = [i \in DOMAIN raw.tools |-> ParseTool(raw.tools[i])]]

(***************************************************************************)
(* validateArguments: the parameters in order; the first failure is thrown.*)
(***************************************************************************)
Validated(v) == [ok |-> TRUE, validated |-> v, error |-> "", about |-> <<>>]
Invalid(kind, key) == [ok |-> FALSE, validated |-> NoArgs, error |-> kind, about |-> <<key>>]

TypeMatches(param, value) ==
    /\ param.type = "string" => value.t = "string"
    /\ param.type = "number" => value.t = "number"
    /\ param.type = "boolean" => value.t = "boolean"
    /\ param.type = "array" => value.t = "array"

RECURSIVE validateFrom(_, _, _, _)
validateFrom(parameters, args, i, validated) ==
    IF i > Len(parameters) THEN Validated(validated)
    ELSE
      LET param == parameters[i]
          key == param.key
          missing == key \notin DOMAIN args
      IN  IF missing /\ param.required
          THEN IF param.hasDefault
               THEN validateFrom(parameters, args, i + 1, (key :> param.default) @@ validated)
               ELSE Invalid("MissingParameter", key)
          ELSE IF ~missing
          THEN IF ~TypeMatches(param, args[key])
               THEN Invalid("TypeMismatch", key)
               ELSE IF /\ param.type = "string"
                       /\ PatternTruthy(param.pattern)
                       /\ ~RegExpTest(param.pattern, args[key].s)
               THEN Invalid("PatternMismatch", key)
               ELSE validateFrom(parameters, args, i + 1, (key :> args[key]) @@ validated)
          ELSE validateFrom(parameters, args, i + 1, validated)

\* validateArguments giving every missing parameter its default, required or not
validateArgumentsDefaultingAll(toolConfig, args) ==
    LET made == validateFrom(toolConfig.parameters, args, 1, NoArgs)
        optional == {i \in 1..Len(toolConfig.parameters) :
                        /\ toolConfig.parameters[i].key \notin DOMAIN args
                        /\ ~toolConfig.parameters[i].required
                        /\ toolConfig.parameters[i].hasDefault}
        KeyOf(i) == toolConfig.parameters[i].key
        defaults == [k \in {KeyOf(i) : i \in optional} |->
                        toolConfig.parameters[CHOOSE i \in optional : KeyOf(i) = k].default]
    IN  IF made.ok THEN Validated(defaults @@ made.validated) ELSE made

validateArguments(toolConfig, args) ==
    validateFrom(toolConfig.parameters, args, 1, NoArgs)


(***************************************************************************)
(* substituteParameters.  A token that holds a placeholder is decided by   *)
(* its first placeholder: an array value gives one sanitized argument per  *)
(* element; another defined value gives the token with every placeholder   *)
(* of a defined parameter replaced by its sanitized String(); an undefined *)
(* one leaves the token as it is.  The first sanitizer failure is thrown.  *)
(***************************************************************************)
Substituted(args) == [ok |-> TRUE, args |-> args, error |-> "", about |-> <<>>]
Unsafe(failure) == [ok |-> FALSE, args |-> <<>>, error |-> failure.error, about |-> failure.about]

\* the text of a template piece
PieceText(piece) == IF piece.ph THEN <<"{", piece.name, "}">> ELSE piece.text

RECURSIVE TokenText(_)
TokenText(token) ==
    IF token = <<>> THEN <<>> ELSE PieceText(Head(token)) \o TokenText(Tail(token))

HasPlaceholder(token) == \E i \in 1..Len(token) : token[i].ph

FirstPlaceholder(token) ==
    token[CHOOSE i \in 1..Len(token) :
              token[i].ph /\ \A j \in 1..(i - 1) : ~token[j].ph].name

RECURSIVE sanitizeItemsUnchecked(_, _)
\* the array branch pushing each item as it is
sanitizeItemsUnchecked(items, acc) ==
    IF items = <<>> THEN Substituted(acc)
    ELSE sanitizeItemsUnchecked(Tail(items), Append(acc, String(Str(Head(items)))))

RECURSIVE sanitizeItems(_, _)
\* the array branch: result.push(sanitizeParameter(String(item))) for each item
sanitizeItems(items, acc) ==
    IF items = <<>> THEN Substituted(acc)
    ELSE LET clean == sanitizeParameter(String(Str(Head(items))))
         IN  IF clean.ok THEN sanitizeItems(Tail(items), Append(acc, clean.value))
             ELSE Unsafe(clean)

RECURSIVE replaceAll(_, _, _)
\* arg.replace(/\{(\w+)\}/g, ...): the text of the token, piece by piece
replaceAll(token, params, acc) ==
    IF token = <<>> THEN Substituted(<<acc>>)
    ELSE LET piece == Head(token)
         IN  IF piece.ph /\ piece.name \in DOMAIN params
             THEN LET clean == sanitizeParameter(String(params[piece.name]))
                  IN  IF clean.ok THEN replaceAll(Tail(token), params, acc \o clean.value)
                      ELSE Unsafe(clean)
             ELSE replaceAll(Tail(token), params, acc \o PieceText(piece))

\* substituteToken without the branch of arrays: an array is substituted
\* as its String() into one argument
substituteTokenJoiningArrays(token, params) ==
    IF HasPlaceholder(token) /\ FirstPlaceholder(token) \in DOMAIN params
    THEN replaceAll(token, params, <<>>)
    ELSE Substituted(<<TokenText(token)>>)

substituteToken(token, params) ==
    IF HasPlaceholder(token)
    THEN LET paramName == FirstPlaceholder(token)
         IN  IF paramName \in DOMAIN params /\ params[paramName].t = "array"
             THEN sanitizeItems(params[paramName].a, <<>>)
             ELSE IF paramName \in DOMAIN params
             THEN replaceAll(token, params, <<>>)
             ELSE Substituted(<<TokenText(token)>>)
    ELSE Substituted(<<TokenText(token)>>)

RECURSIVE substituteFrom(_, _, _, _)
substituteFrom(template, params, i, result) ==
    IF i > Len(template) THEN Substituted(result)
    ELSE LET one == substituteToken(template[i], params)
         IN  IF one.ok THEN substituteFrom(template, params, i + 1, result \o one.args)
             ELSE one

substituteParameters(template, params) == substituteFrom(template, params, 1, <<>>)

(***************************************************************************)
(* The path checks of the call handler: the elements of an array `files`   *)
(* when the tool has allowedDirectories and `files` is truthy; else the    *)
(* scalar `file` when it is truthy.                                        *)
(***************************************************************************)
PathsOk == [ok |-> TRUE, error |-> "", about |-> <<>>]
PathRefused(file) == [ok |-> FALSE, error |-> "SandboxViolation", about |-> file]

RECURSIVE checkFiles(_, _, _)
checkFiles(base, files, allowedDirs) ==
    IF files = <<>> THEN PathsOk
    ELSE LET file == Head(files)
             resolvedFile == path_resolve(base, file)
         IN  IF ~isPathAllowed(base, resolvedFile, allowedDirs) THEN PathRefused(file)
             ELSE checkFiles(base, Tail(files), allowedDirs)

\* the path checks made whether or not the tool declares allowedDirectories
HasAllowedDirectoriesAlways(toolConfig) == TRUE

\* toolConfig.allowedDirectories as a condition: an array, when present, is truthy
HasAllowedDirectories(toolConfig) == toolConfig.hasAllowedDirectories

checkPaths(base, toolConfig, validatedArgs) ==
    IF /\ HasAllowedDirectories(toolConfig)
       /\ "files" \in DOMAIN validatedArgs
       /\ Truthy(validatedArgs["files"])
    THEN IF validatedArgs["files"].t = "array"
         THEN checkFiles(base, validatedArgs["files"].a, toolConfig.allowedDirectories)
         ELSE PathsOk
    ELSE IF /\ HasAllowedDirectories(toolConfig)
            /\ "file" \in DOMAIN validatedArgs
            /\ Truthy(validatedArgs["file"])
    THEN IF validatedArgs["file"].t # "string"
         THEN [ok |-> FALSE, error |-> "TypeError", about |-> <<>>]
         ELSE checkFiles(base, <<validatedArgs["file"].s>>, toolConfig.allowedDirectories)
    ELSE PathsOk

(***************************************************************************)
(* checkRateLimit: the new list of the user and whether the call is        *)
(* admitted.                                                               *)
(***************************************************************************)
WindowMs == 60000
DefaultMaxPerMinute == 10

\* this.config?.security?.maxExecutionsPerMinute || 10
maxPerMinute(cfg) ==
    IF ~cfg.security.present \/ cfg.security.maxExecutionsPerMinute = 0
    THEN DefaultMaxPerMinute
    ELSE cfg.security.maxExecutionsPerMinute

\* the executions kept by the filter
Recent(time, t) == t - time < WindowMs

RECURSIVE Filter(_, _)
Filter(list, t) ==
    IF list = <<>> THEN <<>>
    ELSE IF Recent(Head(list), t) THEN <<Head(list)>> \o Filter(Tail(list), t)
    ELSE Filter(Tail(list), t)

userExecutions(limiter, userId) ==
    IF userId \in DOMAIN limiter THEN limiter[userId] ELSE <<>>

\* checkRateLimit refusing only above the ceiling
checkRateLimitAbove(limiter, cfg, t, userId) ==
    LET recentExecutions == Filter(userExecutions(limiter, userId), t)
    IN  IF Len(recentExecutions) > maxPerMinute(cfg)
        THEN [allowed |-> FALSE, limiter |-> (userId :> recentExecutions) @@ limiter]
        ELSE [allowed |-> TRUE,
              limiter |-> (userId :> Append(recentExecutions, t)) @@ limiter]

\* checkRateLimit storing the current time alone when it admits: the list
\* it read is lost
checkRateLimitOverwriting(limiter, cfg, t, userId) ==
    LET recentExecutions == Filter(userExecutions(limiter, userId), t)
    IN  IF Len(recentExecutions) >= maxPerMinute(cfg)
        THEN [allowed |-> FALSE, limiter |-> (userId :> recentExecutions) @@ limiter]
        ELSE [allowed |-> TRUE, limiter |-> (userId :> <<t>>) @@ limiter]

\* checkRateLimit recording the attempt it refuses
checkRateLimitRecordingAll(limiter, cfg, t, userId) ==
    LET recentExecutions == Filter(userExecutions(limiter, userId), t)
    IN  [allowed |-> Len(recentExecutions) < maxPerMinute(cfg),
         limiter |-> (userId :> Append(recentExecutions, t)) @@ limiter]

\* checkRateLimit without the filter of old executions
checkRateLimitKeepingExpired(limiter, cfg, t, userId) ==
    LET recentExecutions == userExecutions(limiter, userId)
    IN  IF Len(recentExecutions) >= maxPerMinute(cfg)
        THEN [allowed |-> FALSE, limiter |-> (userId :> recentExecutions) @@ limiter]
        ELSE [allowed |-> TRUE,
              limiter |-> (userId :> Append(recentExecutions, t)) @@ limiter]

checkRateLimit(limiter, cfg, t, userId) ==
    LET recentExecutions == Filter(userExecutions(limiter, userId), t)
    IN  IF Len(recentExecutions) >= maxPerMinute(cfg)
        THEN [allowed |-> FALSE, limiter |-> (userId :> recentExecutions) @@ limiter]
        ELSE [allowed |-> TRUE,
              limiter |-> (userId :> Append(recentExecutions, t)) @@ limiter]


(***************************************************************************)
(* The configurations the server is started with, and the requests sent to *)
(* it.                                                                     *)
(***************************************************************************)
InsidePath == <<"/", "h", "/", "a">>
OutsidePath == <<"/", "e">>
AllowedDir == <<"/", "h">>
WorkDir == <<"/", "w">>

ReadTool(hasDirs, dirs, maxOutputSize) ==
    Tool("read_docs", "sh",
         << <<Lit(<<"-", "-">>)>>, <<Ph("files")>>, <<Lit(<<"-", "o", "=">>), Ph("file")>> >>,
         << WithItems(Param("files", "array", FALSE, FALSE, Str(<<>>), NoPattern),
                      Items("string", TRUE, Pattern(TRUE, <<"/">>, FALSE))),
            Param("file", "string", FALSE, FALSE, Str(<<>>), NoPattern) >>,
         hasDirs, dirs, 30000, maxOutputSize)

ListTool(maxOutputSize) ==
    Tool("list", "ls",
         << <<Lit(<<"-", "l">>)>>, <<Ph("dir")>>, <<Ph("opt")>> >>,
         << Param("depth", "number", TRUE, FALSE, Num(0), NoPattern),
            Param("dir", "string", TRUE, TRUE, Str(<<".">>), Pattern(TRUE, <<"/">>, FALSE)),
            Param("opt", "string", FALSE, TRUE, Str(<<"-", "a">>), NoPattern) >>,
         FALSE, <<>>, 30000, maxOutputSize)

\* the tool of the built-in configuration of loadConfiguration
EchoTool ==
    Tool("echo", "echo",
         << <<Ph("message")>> >>,
         << Param("message", "string", TRUE, FALSE, Str(<<>>), NoPattern) >>,
         FALSE, <<>>, 5000, 1024 * 1024)

\* the configuration loadConfiguration falls back to
DefaultConfig == Config(<<EchoTool>>, NoSecurity)

\* what the configuration files hold; the first entry stands for the
\* built-in configuration, which is read from no file
ConfigFiles ==
    << DefaultConfig,
       Config(<<ReadTool(TRUE, <<AllowedDir>>, 1), ListTool(1)>>, NoSecurity),
       Config(<<ReadTool(FALSE, <<>>, 1), EchoTool>>,
              Security(TRUE, <<"sh", "echo">>, 1)),
       Config(<<ReadTool(TRUE, <<>>, 0), EchoTool>>, Security(TRUE, <<>>, 2)),
       Config(<<ReadTool(TRUE, <<AllowedDir>>, 0), ListTool(0)>>,
              Security(FALSE, <<>>, 2)),
       Config(<<ReadTool(FALSE, <<>>, 1), ListTool(1)>>, Security(TRUE, <<"ls">>, 0)),
       Config(<<EchoTool>>, Security(FALSE, <<>>, 1)),
       Config(<<EchoTool>>, Security(FALSE, <<>>, 2)),
       Config(<<EchoTool>>, Security(FALSE, <<>>, 0)) >>

\* the configurations the server can hold: the built-in one, and the
\* files as ConfigSchema.parse returns them
Configs ==
    [i \in DOMAIN ConfigFiles |->
        IF i = 1 THEN DefaultConfig ELSE ConfigSchemaParse(ConfigFiles[i])]

\* a file that cannot be read, is not JSON or does not fit ConfigSchema
Unreadable == 0
\* files that configure several tools
ToolFiles == {Unreadable} \cup 2..6
\* files that configure the echo tool and a ceiling of executions per minute
EchoFiles == {Unreadable} \cup 7..9

\* this.config: the configuration the variable config designates
NoConfig == 0
BuiltIn == 1
Loaded == config # NoConfig
TheConfig == Configs[config]

\* the argument mappings a caller sends for a tool name
ArgChoices(name) ==
    CASE name = "read_docs" ->
            { NoArgs,
              "files" :> Arr(<<InsidePath>>),
              "files" :> Arr(<<InsidePath, OutsidePath>>),
              ("files" :> Arr(<<InsidePath>>)) @@ ("file" :> Str(OutsidePath)),
              "file" :> Str(OutsidePath),
              "file" :> Str(InsidePath),
              "files" :> Arr(<<InsidePath \o <<";">> >>),
              "files" :> Str(OutsidePath) }
      [] name = "list" ->
            { NoArgs,
              "depth" :> Num(1),
              ("depth" :> Num(1)) @@ ("dir" :> Str(AllowedDir)) @@ ("opt" :> Str(<<"-", "a">>)),
              ("depth" :> Num(1)) @@ ("opt" :> Str(<<"|">>)) }
      [] name = "echo" ->
            { NoArgs,
              "message" :> Str(<<"h", "i">>),
              "message" :> Str(<<"a", "$">>),
              "message" :> Str(<<"NUL">>),
              "message" :> Num(5) }
      [] OTHER -> { NoArgs }

ToolNames == {"read_docs", "list", "echo", "nope"}

\* the clock advances by these amounts
TickSteps == {29999, 30001}

\* the sizes of the chunks a child process writes
ChunkSizes == {1, 2}

\* the exit codes of a child process that ends by itself
ExitCodes == {0, 1}

(***************************************************************************)
(* A tool call.                                                            *)
(***************************************************************************)
NoResult ==
    [exitCode |-> 0, success |-> FALSE, stdout |-> 0, stderr |-> 0, executionTime |-> 0]
NoResponse == [kind |-> "none", error |-> "", about |-> <<>>, result |-> NoResult]
\* an error thrown out of the request handler
Thrown(error, about) ==
    [kind |-> "thrown", error |-> error, about |-> about, result |-> NoResult]
\* the error result of the catch around executeCommand
IsError(error, about) ==
    [kind |-> "isError", error |-> error, about |-> about, result |-> NoResult]
\* the transcript of formatCommandResult
Transcript(result) == [kind |-> "result", error |-> "", about |-> <<>>, result |-> result]

\* what the "close" event reports: an exit code, or null and the signal
Exited(code) == [hasCode |-> TRUE, code |-> code]
Signalled == [hasCode |-> FALSE, code |-> 0]

NewCall(name, args) ==
    [name |-> name, args |-> args, tool |-> 0, pc |-> "received",
     passed |-> {}, at |-> 0,
     validatedArgs |-> NoArgs, processedArgs |-> <<>>,
     child |-> "none", started |-> FALSE, signalled |-> FALSE, timedOut |-> FALSE,
     exit |-> Exited(0), startTime |-> 0, stdout |-> 0, stderr |-> 0, outputSize |-> 0,
     promise |-> "none", response |-> NoResponse]

\* this.config.tools.find((t) => t.name === name): its index, 0 when there is none
FindTool(cfg, name) ==
    IF \E i \in 1..Len(cfg.tools) : cfg.tools[i].name = name
    THEN CHOOSE i \in 1..Len(cfg.tools) :
             /\ cfg.tools[i].name = name
             /\ \A j \in 1..(i - 1) : cfg.tools[j].name # name
    ELSE 0

ToolOf(c) == TheConfig.tools[calls[c].tool]


(***************************************************************************)
(* start: loadConfiguration, before the server is connected.  A file that  *)
(* cannot be read or parsed gives the built-in configuration.              *)
(***************************************************************************)
\* loadConfiguration without the configuration of its catch
loadedConfigNoFallback == IF configFile = Unreadable THEN NoConfig ELSE configFile

\* this.config after loadConfiguration
loadedConfig == IF configFile = Unreadable THEN BuiltIn ELSE configFile

loadConfiguration ==
    /\ startPc = "loading"
    /\ config' = loadedConfig
    /\ startPc' = "loaded"
    /\ UNCHANGED <<configFile, requests, now, cwd, rateLimiter, calls, nextId, ticks, admitLog, advertised, fnIn, fnOut>>

\* start, after its await of loadConfiguration: the transport is connected
\* and requests are served
Connect ==
    /\ startPc = "loaded"
    /\ startPc' = "connected"
    /\ UNCHANGED <<configFile, requests, config, now, cwd, rateLimiter, calls, nextId, ticks, admitLog, advertised, fnIn, fnOut>>

(***************************************************************************)
(* The tools/list handler: of every parameter the input schema advertises  *)
(* type, description, default and pattern, and nothing of its items.       *)
(***************************************************************************)
Property(param) ==
    [key |-> param.key, type |-> param.type,
     hasDefault |-> param.hasDefault, default |-> param.default,
     pattern |-> param.pattern, items |-> NoItems]

RequiredKeys(parameters) ==
    LET required == SelectSeq(parameters, LAMBDA param : param.required)
    IN  [j \in DOMAIN required |-> required[j].key]

InputSchema(toolConfig) ==
    [properties |-> [j \in DOMAIN toolConfig.parameters |->
                        Property(toolConfig.parameters[j])],
     required |-> RequiredKeys(toolConfig.parameters)]

Listed(tools) == [listed |-> TRUE, tools |-> tools]

ListTools ==
    /\ startPc = "connected"
    /\ requests > 0
    /\ requests' = requests - 1
    /\ advertised' =
           IF ~Loaded THEN Listed(<<>>)
           ELSE Listed([i \in DOMAIN TheConfig.tools |->
                           [name |-> TheConfig.tools[i].name,
                            inputSchema |-> InputSchema(TheConfig.tools[i])]])
    /\ UNCHANGED <<configFile, startPc, config, now, cwd, rateLimiter, calls, nextId, ticks, admitLog, fnIn, fnOut>>

(***************************************************************************)
(* The tools/call handler up to its first await: the configuration and     *)
(* tool lookups, checkRateLimit and validateArguments.                     *)
(***************************************************************************)
\* the calls whose handler and child process have both ended
Finished == {c \in DOMAIN calls : calls[c].pc = "answered" /\ calls[c].child \in {"none", "closed"}}

Received(name, args, limit) ==
    LET call == NewCall(name, args)
        idx == FindTool(TheConfig, name)
        rate == checkRateLimit(rateLimiter, TheConfig, now, "default")
        valid == validateArguments(TheConfig.tools[idx], args)
    IN  IF ~Loaded
        THEN [call |-> [call EXCEPT !.pc = "answered",
                                    !.response = Thrown("ConfigurationMissing", <<>>)],
              limiter |-> rateLimiter, admitted |-> FALSE]
        ELSE IF idx = 0
        THEN [call |-> [call EXCEPT !.pc = "answered",
                                    !.response = Thrown("ToolNotFound", <<name>>)],
              limiter |-> rateLimiter, admitted |-> FALSE]
        ELSE IF ~rate.allowed
        THEN [call |-> [call EXCEPT !.tool = idx, !.pc = "answered", !.at = now,
                                    !.passed = {"tool"},
                                    !.response = Thrown("RateLimitExceeded", <<>>)],
              limiter |-> rate.limiter, admitted |-> FALSE]
        ELSE IF ~valid.ok
        THEN [call |-> [call EXCEPT !.tool = idx, !.pc = "answered", !.at = now,
                                    !.passed = {"tool", "rateLimit"},
                                    !.response = Thrown(valid.error, valid.about)],
              limiter |-> rate.limiter, admitted |-> TRUE]
        ELSE [call |-> [call EXCEPT !.tool = idx, !.pc = "validated", !.at = now,
                                    !.passed = {"tool", "rateLimit", "validation"},
                                    !.validatedArgs = valid.validated],
              limiter |-> rate.limiter, admitted |-> TRUE]

CallTool(name, args, limit) ==
    /\ startPc = "connected"
    /\ requests > 0
    /\ requests' = requests - 1
    /\ Cardinality((DOMAIN calls) \ Finished) < limit
    /\ LET got == Received(name, args, limit)
           kept == [c \in (DOMAIN calls) \ Finished |-> calls[c]]
       IN  /\ calls' = (nextId :> got.call) @@ kept
           /\ rateLimiter' = got.limiter
           /\ admitLog' = IF got.admitted
                          THEN Append(admitLog, [id |-> nextId, at |-> now])
                          ELSE admitLog
    /\ nextId' = nextId + 1
    /\ UNCHANGED <<configFile, config, now, cwd, ticks, startPc, advertised, fnIn, fnOut>>

(***************************************************************************)
(* executeCommand.                                                         *)
(***************************************************************************)
DefaultTimeout == 30000
DefaultMaxOutputSize == 10485760

\* the allowlist test skipped for an allowlist without entries
commandAllowedUnlessEmpty(cfg, command) ==
    IF /\ cfg.security.present /\ cfg.security.hasAllowedCommands
       /\ cfg.security.allowedCommands # <<>>
    THEN \E i \in 1..Len(cfg.security.allowedCommands) :
             cfg.security.allowedCommands[i] = command
    ELSE TRUE

\* the allowlist test at the head of executeCommand
commandAllowed(cfg, command) ==
    IF cfg.security.present /\ cfg.security.hasAllowedCommands
    THEN \E i \in 1..Len(cfg.security.allowedCommands) :
             cfg.security.allowedCommands[i] = command
    ELSE TRUE

\* options.timeout || 30000
timeoutOf(toolConfig) ==
    IF toolConfig.timeout = 0 THEN DefaultTimeout ELSE toolConfig.timeout

\* options.maxOutputSize || 10 * 1024 * 1024
maxOutputSizeOf(toolConfig) ==
    IF toolConfig.maxOutputSize = 0 THEN DefaultMaxOutputSize ELSE toolConfig.maxOutputSize

\* reject(error): settles a pending promise; the catch of the handler answers
reject(call, error) ==
    IF call.promise = "pending"
    THEN [call EXCEPT !.promise = "rejected", !.pc = "answered",
                      !.response = IsError(error, <<>>)]
    ELSE call

\* a resolve that settles the promise again when it is already settled
resolveAlways(call, result) ==
    [call EXCEPT !.promise = "resolved", !.pc = "answered",
                 !.response = Transcript(result)]

\* resolve(result): settles a pending promise; the handler answers the transcript
resolve(call, result) ==
    IF call.promise = "pending"
    THEN [call EXCEPT !.promise = "resolved", !.pc = "answered",
                      !.response = Transcript(result)]
    ELSE call

(***************************************************************************)
(* The handler after validateArguments: the path checks, the substitution, *)
(* then executeCommand up to the spawn.  spawnOk is whether the operating  *)
(* system starts the process.                                              *)
(***************************************************************************)
Resumed(call, toolConfig, spawnOk) ==
    LET paths == checkPaths(cwd, toolConfig, call.validatedArgs)
        subst == substituteParameters(toolConfig.args, call.validatedArgs)
    IN  IF ~paths.ok
        THEN [call EXCEPT !.pc = "answered", !.response = Thrown(paths.error, paths.about)]
        ELSE IF ~subst.ok
        THEN [call EXCEPT !.pc = "answered", !.passed = @ \cup {"sandbox"},
                          !.response = Thrown(subst.error, subst.about)]
        ELSE IF ~commandAllowed(TheConfig, toolConfig.command)
        THEN [call EXCEPT !.pc = "answered",
                          !.passed = @ \cup {"sandbox", "sanitization"},
                          !.processedArgs = subst.args,
                          !.promise = "rejected",
                          !.response = IsError("CommandNotAllowed", <<toolConfig.command>>)]
        ELSE [call EXCEPT !.pc = "running",
                          !.passed = @ \cup {"sandbox", "sanitization", "allowlist"},
                          !.processedArgs = subst.args,
                          !.promise = "pending",
                          !.startTime = now,
                          !.started = spawnOk,
                          !.child = IF spawnOk THEN "running" ELSE "failed"]

ResumeCall(c, spawnOk) ==
    /\ calls[c].pc = "validated"
    /\ calls' = [calls EXCEPT ![c] = Resumed(calls[c], ToolOf(c), spawnOk)]
    /\ UNCHANGED <<configFile, requests, config, now, cwd, rateLimiter, nextId, ticks, admitLog, startPc, advertised, fnIn, fnOut>>

(***************************************************************************)
(* The events of the child process.                                        *)
(***************************************************************************)
\* checkOutputSize, then the append to stdout or stderr
OnData(call, toolConfig, stream, n) ==
    LET counted == [call EXCEPT !.outputSize = @ + n]
        checked == IF counted.outputSize > maxOutputSizeOf(toolConfig)
                   THEN reject([counted EXCEPT !.signalled = TRUE], "OutputSizeExceeded")
                   ELSE counted
    IN  IF stream = "stdout" THEN [checked EXCEPT !.stdout = @ + n]
        ELSE [checked EXCEPT !.stderr = @ + n]

ChildData(c, stream, n) ==
    /\ calls[c].child = "running"
    /\ calls[c].stdout + calls[c].stderr + n <= MaxBytes
    /\ calls' = [calls EXCEPT ![c] = OnData(calls[c], ToolOf(c), stream, n)]
    /\ UNCHANGED <<configFile, requests, config, now, cwd, rateLimiter, nextId, ticks, admitLog, startPc, advertised, fnIn, fnOut>>

\* a timeout that sends the child no signal
ChildTimeoutWithoutSignal(c) ==
    /\ calls[c].child = "running"
    /\ ~calls[c].timedOut
    /\ now - calls[c].startTime >= timeoutOf(ToolOf(c))
    /\ calls' = [calls EXCEPT ![c].timedOut = TRUE]
    /\ UNCHANGED <<configFile, requests, config, now, cwd, rateLimiter, nextId, ticks, admitLog, startPc, advertised, fnIn, fnOut>>

\* the timeout option of spawn: the child still runs when the time is up
\* and is sent killSignal
ChildTimeout(c) ==
    /\ calls[c].child = "running"
    /\ ~calls[c].timedOut
    /\ now - calls[c].startTime >= timeoutOf(ToolOf(c))
    /\ calls' = [calls EXCEPT ![c].timedOut = TRUE, ![c].signalled = TRUE]
    /\ UNCHANGED <<configFile, requests, config, now, cwd, rateLimiter, nextId, ticks, admitLog, startPc, advertised, fnIn, fnOut>>

\* the "error" event of a process that could not be started
ChildError(c) ==
    /\ calls[c].child = "failed"
    /\ calls' = [calls EXCEPT ![c] = [reject(calls[c], "SpawnFailure") EXCEPT !.child = "errored"]]
    /\ UNCHANGED <<configFile, requests, config, now, cwd, rateLimiter, nextId, ticks, admitLog, startPc, advertised, fnIn, fnOut>>

\* the "close" handler: exitCode is code || 0, success is code === 0
OnClose(call, status) ==
    LET result == [exitCode |-> IF status.hasCode THEN status.code ELSE 0,
                   stdout |-> call.stdout,
                   stderr |-> call.stderr,
                   success |-> status.hasCode /\ status.code = 0,
                   executionTime |-> now - call.startTime]
    IN  [resolve(call, result) EXCEPT !.child = "closed", !.exit = status]

\* the process ends by itself with an exit code
ChildExit(c, code) ==
    /\ calls[c].child = "running"
    /\ calls' = [calls EXCEPT ![c] = OnClose(calls[c], Exited(code))]
    /\ UNCHANGED <<configFile, requests, config, now, cwd, rateLimiter, nextId, ticks, admitLog, startPc, advertised, fnIn, fnOut>>

\* the process is ended by the signal it was sent
ChildKilled(c) ==
    /\ calls[c].child = "running"
    /\ calls[c].signalled
    /\ calls' = [calls EXCEPT ![c] = OnClose(calls[c], Signalled)]
    /\ UNCHANGED <<configFile, requests, config, now, cwd, rateLimiter, nextId, ticks, admitLog, startPc, advertised, fnIn, fnOut>>

\* the "close" event that follows the "error" event of a failed spawn
ChildCloseAfterError(c) ==
    /\ calls[c].child = "errored"
    /\ calls' = [calls EXCEPT ![c] = OnClose(calls[c], Exited(-2))]
    /\ UNCHANGED <<configFile, requests, config, now, cwd, rateLimiter, nextId, ticks, admitLog, startPc, advertised, fnIn, fnOut>>

\* time passes
Tick(d) ==
    /\ ticks < MaxTicks
    /\ now' = now + d
    /\ ticks' = ticks + 1
    /\ UNCHANGED <<configFile, requests, config, cwd, rateLimiter, calls, nextId, admitLog, startPc, advertised, fnIn, fnOut>>

\* time passes while the timeout of a running child has not expired, also
\* when the clock advances of Tick are used up
Elapse(d) ==
    /\ ticks >= MaxTicks
    /\ \E c \in DOMAIN calls :
           /\ calls[c].child = "running"
           /\ ~calls[c].timedOut
           /\ now - calls[c].startTime < timeoutOf(ToolOf(c))
    /\ now' = now + d
    /\ UNCHANGED <<configFile, requests, config, cwd, rateLimiter, calls, nextId, ticks, admitLog, startPc, advertised, fnIn, fnOut>>

(***************************************************************************)
(* The server with a client that sends one request at a time.              *)
(***************************************************************************)
InitWith(files, n) ==
    /\ configFile \in files
    /\ requests = n
    /\ startPc = "loading"
    /\ advertised = NotListed
    /\ config = NoConfig
    /\ now = 0
    /\ cwd = WorkDir
    /\ rateLimiter = [u \in {} |-> <<>>]
    /\ calls = [c \in {} |-> NewCall("", NoArgs)]
    /\ nextId = 1
    /\ ticks = 0
    /\ admitLog = <<>>
    /\ fnIn = NoInput
    /\ fnOut = NotRun

Init == InitWith(ToolFiles, MaxRequests)

Next ==
    \/ loadConfiguration
    \/ Connect
    \/ ListTools
    \/ \E name \in ToolNames : \E args \in ArgChoices(name) : CallTool(name, args, 1)
    \/ \E c \in DOMAIN calls : \E spawnOk \in BOOLEAN : ResumeCall(c, spawnOk)
    \/ \E c \in DOMAIN calls : \E stream \in {"stdout", "stderr"} : \E n \in ChunkSizes :
           ChildData(c, stream, n)
    \/ \E c \in DOMAIN calls : ChildTimeout(c)
    \/ \E c \in DOMAIN calls : ChildError(c)
    \/ \E c \in DOMAIN calls : \E code \in ExitCodes : ChildExit(c, code)
    \/ \E c \in DOMAIN calls : ChildKilled(c)
    \/ \E c \in DOMAIN calls : ChildCloseAfterError(c)
    \/ \E d \in TickSteps : Tick(d)

Spec == Init /\ [][Next]_vars

\* the server configured with the echo tool only, under more requests
InitEcho == InitWith(EchoFiles, MaxCalls)

SpecEcho == InitEcho /\ [][Next]_vars

\* the server under fair scheduling: the handler is resumed after its
\* await, time passes, the timer of spawn fires when it is due, a child that
\* was sent the signal ends, and a failed spawn reports its error
NextLive ==
    \/ Next
    \/ \E d \in TickSteps : Elapse(d)

Fairness ==
    /\ WF_vars(\E c \in DOMAIN calls : \E spawnOk \in BOOLEAN : ResumeCall(c, spawnOk))
    /\ WF_vars(\E d \in TickSteps : Tick(d) \/ Elapse(d))
    /\ WF_vars(\E c \in DOMAIN calls : ChildTimeout(c))
    /\ WF_vars(\E c \in DOMAIN calls : ChildKilled(c))
    /\ WF_vars(\E c \in DOMAIN calls : ChildError(c))

\* the server started on a file that configures the echo tool
InitLive == InitWith(EchoFiles, MaxRequests)

SpecLive == InitLive /\ [][NextLive]_vars /\ Fairness

\* the same server under a client that sends a request while earlier calls
\* still await their child process
NextOverlap ==
    \/ Next
    \/ \E name \in ToolNames : \E args \in ArgChoices(name) :
           CallTool(name, args, MaxOverlap)

InitOverlap == InitWith(EchoFiles, MaxOverlap)

SpecOverlap == InitOverlap /\ [][NextOverlap]_vars


(***************************************************************************)
(* The sanitizer alone, on every short string over its dangerous           *)
(* characters, the null byte and some harmless characters.                 *)
(***************************************************************************)
SanitizerChars == dangerous \cup {"NUL", "a", " ", "'", "(", "-", "."}

InitSanitize ==
    /\ configFile = Unreadable
    /\ requests = 0
    /\ startPc = "loading"
    /\ advertised = NotListed
    /\ config = NoConfig
    /\ now = 0
    /\ cwd = WorkDir
    /\ rateLimiter = [u \in {} |-> <<>>]
    /\ calls = [c \in {} |-> NewCall("", NoArgs)]
    /\ nextId = 1
    /\ ticks = 0
    /\ admitLog = <<>>
    /\ fnIn \in SeqsUpTo(SanitizerChars, MaxStrLen)
    /\ fnOut = NotRun

Sanitize ==
    /\ ~fnOut.ran
    /\ fnOut' = [ran |-> TRUE, result |-> sanitizeParameter(fnIn)]
    /\ UNCHANGED <<configFile, requests, config, now, cwd, rateLimiter, calls, nextId,
                   ticks, admitLog, startPc, advertised, fnIn>>

SpecSanitize == InitSanitize /\ [][Sanitize]_vars

(***************************************************************************)
(* The sandbox check of one path, as the call handler makes it: the path   *)
(* is resolved, then isPathAllowed resolves it again and compares it with  *)
(* the resolved allowed directories.                                       *)
(***************************************************************************)
PathChars == {"/", "a", "b", "."}

\* allowed-directory lists of a tool
DirLists ==
    { <<>>,
      << <<"/", "a">> >>,
      << <<"/", "a", "/">> >>,
      << <<"/", "a", "/", "b">> >>,
      << <<"a">> >>,
      << <<"/">> >>,
      << <<"/", "b", "/", ".", ".", "/", "a">> >>,
      << <<"/", "b">>, <<"/", "a", "/", "a">> >> }

\* working directories of the server
WorkDirs == { <<"/">>, <<"/", "a">>, <<"/", "b", "/", "a">> }

InitSandbox ==
    /\ configFile = Unreadable
    /\ requests = 0
    /\ startPc = "loading"
    /\ advertised = NotListed
    /\ config = NoConfig
    /\ now = 0
    /\ cwd \in WorkDirs
    /\ rateLimiter = [u \in {} |-> <<>>]
    /\ calls = [c \in {} |-> NewCall("", NoArgs)]
    /\ nextId = 1
    /\ ticks = 0
    /\ admitLog = <<>>
    /\ fnIn \in [path : SeqsUpTo(PathChars, MaxPathLen), dirs : DirLists]
    /\ fnOut = NotRun

SandboxCheck ==
    /\ ~fnOut.ran
    /\ fnOut' = [ran |-> TRUE, result |-> checkFiles(cwd, <<fnIn.path>>, fnIn.dirs)]
    /\ UNCHANGED <<configFile, requests, config, now, cwd, rateLimiter, calls, nextId,
                   ticks, admitLog, startPc, advertised, fnIn>>

SpecSandbox == InitSandbox /\ [][SandboxCheck]_vars


(***************************************************************************)
(* The validator on one string parameter with a pattern: every pattern     *)
(* made of a short literal with or without ^ and $, every short value.     *)
(***************************************************************************)
PatternChars == {"a", "b"}

PatternSources ==
    {Pattern(start, lit, end) :
        start \in BOOLEAN, lit \in SeqsUpTo(PatternChars, MaxStrLen), end \in BOOLEAN}

\* a tool whose only parameter is a string with the pattern
PatternTool(pattern) ==
    Tool("match", "echo", << <<Ph("v")>> >>,
         << Param("v", "string", TRUE, FALSE, Str(<<>>), pattern) >>,
         FALSE, <<>>, 30000, 1)

InitPattern ==
    /\ configFile = Unreadable
    /\ requests = 0
    /\ startPc = "loading"
    /\ advertised = NotListed
    /\ config = NoConfig
    /\ now = 0
    /\ cwd = WorkDir
    /\ rateLimiter = [u \in {} |-> <<>>]
    /\ calls = [c \in {} |-> NewCall("", NoArgs)]
    /\ nextId = 1
    /\ ticks = 0
    /\ admitLog = <<>>
    /\ fnIn \in [pattern : PatternSources, value : SeqsUpTo(PatternChars, MaxStrLen)]
    /\ fnOut = NotRun

ValidatePattern ==
    /\ ~fnOut.ran
    /\ fnOut' = [ran |-> TRUE,
                 result |-> validateArguments(PatternTool(fnIn.pattern),
                                              "v" :> Str(fnIn.value))]
    /\ UNCHANGED <<configFile, requests, config, now, cwd, rateLimiter, calls, nextId,
                   ticks, admitLog, startPc, advertised, fnIn>>

SpecPattern == InitPattern /\ [][ValidatePattern]_vars

(***************************************************************************)
(* substituteParameters alone, on short templates of tokens with and       *)
(* without placeholders and on parameter mappings of scalars and arrays.   *)
(***************************************************************************)
SubstTokens ==
    { <<Lit(<<"-", "-">>)>>,
      <<Ph("x")>>,
      <<Lit(<<"-", "o", "=">>), Ph("x"), Lit(<<".", "t">>)>>,
      <<Ph("f")>>,
      <<Lit(<<"p", "=">>), Ph("f")>>,
      <<Ph("x"), Ph("f")>> }

SubstValues ==
    { Str(<<"a">>), Str(<<>>), Str(<<"$">>), Num(5), Bool(TRUE),
      Arr(<< <<"a">>, <<"b">> >>), Arr(<<>>) }

\* the validated arguments: some of the parameters x and f, with a value
SubstParams == UNION {[keys -> SubstValues] : keys \in SUBSET {"x", "f"}}

InitSubstitute ==
    /\ configFile = Unreadable
    /\ requests = 0
    /\ startPc = "loading"
    /\ advertised = NotListed
    /\ config = NoConfig
    /\ now = 0
    /\ cwd = WorkDir
    /\ rateLimiter = [u \in {} |-> <<>>]
    /\ calls = [c \in {} |-> NewCall("", NoArgs)]
    /\ nextId = 1
    /\ ticks = 0
    /\ admitLog = <<>>
    /\ fnIn \in [template : SeqsUpTo(SubstTokens, MaxTokens), params : SubstParams]
    /\ fnOut = NotRun

Substitute ==
    /\ ~fnOut.ran
    /\ fnOut' = [ran |-> TRUE, result |-> substituteParameters(fnIn.template, fnIn.params)]
    /\ UNCHANGED <<configFile, requests, config, now, cwd, rateLimiter, calls, nextId,
                   ticks, admitLog, startPc, advertised, fnIn>>

SpecSubstitute == InitSubstitute /\ [][Substitute]_vars

(***************************************************************************)
(* Properties.                                                             *)
(***************************************************************************)
\* the tool calls that found their tool
Found == {c \in DOMAIN calls : calls[c].tool # 0}

\* the paths among validated arguments: the elements of an array `files`
\* and a string `file`
PathArgs(validatedArgs) ==
    (IF "files" \in DOMAIN validatedArgs /\ validatedArgs["files"].t = "array"
     THEN Range(validatedArgs["files"].a) ELSE {})
    \cup
    (IF "file" \in DOMAIN validatedArgs /\ validatedArgs["file"].t = "string"
     THEN {validatedArgs["file"].s} ELSE {})

\* the resolved path has a resolved directory of dirs as a prefix
Inside(p, dirs) ==
    \E i \in 1..Len(dirs) : startsWith(path_resolve(cwd, p), path_resolve(cwd, dirs[i]))

\* C1: a child process is started, and a transcript is answered, only for
\* a call that the rate limiter admitted, whose arguments passed the
\* validation, whose `files` elements and `file` all lie in the allowed
\* directories when the tool declares some, and whose substituted values
\* all passed the sanitizer.
C1_ResultOnlyAfterAllChecks ==
    \A c \in Found :
        (calls[c].started \/ calls[c].response.kind = "result") =>
            /\ {"rateLimit", "validation"} \subseteq calls[c].passed
            /\ validateArguments(ToolOf(c), calls[c].args).ok
            /\ ToolOf(c).hasAllowedDirectories =>
                   \A p \in PathArgs(calls[c].validatedArgs) :
                       Inside(p, ToolOf(c).allowedDirectories)
            /\ substituteParameters(ToolOf(c).args, calls[c].validatedArgs).ok

\* C2: for a tool that declares allowed directories, a call whose validated
\* `files` elements or `file` hold a path outside them fails with
\* SandboxViolation naming such a path, and starts no process.
C2_EveryPathChecked ==
    \A c \in Found :
        (/\ ToolOf(c).hasAllowedDirectories
         /\ "validation" \in calls[c].passed
         /\ calls[c].pc # "validated"
         /\ \E p \in PathArgs(calls[c].validatedArgs) :
                ~Inside(p, ToolOf(c).allowedDirectories))
        => /\ calls[c].response.kind = "thrown"
           /\ calls[c].response.error = "SandboxViolation"
           /\ calls[c].response.about \in PathArgs(calls[c].validatedArgs)
           /\ ~Inside(calls[c].response.about, ToolOf(c).allowedDirectories)
           /\ ~calls[c].started

\* C3, as claimed: no call to a tool whose allowed directories are absent
\* or an empty list fails with SandboxViolation.
C3_NoDirsNeverRefused ==
    \A c \in Found :
        (~ToolOf(c).hasAllowedDirectories \/ ToolOf(c).allowedDirectories = <<>>)
        => calls[c].response.error # "SandboxViolation"

\* C3, amended: no call to a tool that declares no allowedDirectories fails
\* with SandboxViolation; under an allowedDirectories list without entries
\* every call whose path checks meet a path fails with it.
C3_AbsentDirsNeverRefused ==
    \A c \in Found :
        /\ ~ToolOf(c).hasAllowedDirectories
           => calls[c].response.error # "SandboxViolation"
        /\ (/\ ToolOf(c).hasAllowedDirectories
            /\ ToolOf(c).allowedDirectories = <<>>
            /\ "validation" \in calls[c].passed
            /\ calls[c].pc # "validated"
            /\ "files" \in DOMAIN calls[c].validatedArgs
            /\ calls[c].validatedArgs["files"].t = "array"
            /\ calls[c].validatedArgs["files"].a # <<>>)
           => calls[c].response = Thrown("SandboxViolation",
                                         calls[c].validatedArgs["files"].a[1])

\* a call to a tool without allowedDirectories, with a path outside every
\* directory of the model, started its process
C3_Witness ==
    \E c \in Found :
        /\ ~ToolOf(c).hasAllowedDirectories
        /\ OutsidePath \in PathArgs(calls[c].validatedArgs)
        /\ calls[c].started

\* C4: for a list of allowed directories that is not empty, the sandbox
\* check of a path succeeds exactly when the resolved path has the resolved
\* form of one of the directories as a prefix.
C4_SandboxIffPrefix ==
    (fnOut.ran /\ fnIn.dirs # <<>>) =>
        (fnOut.result.ok <=>
            \E i \in 1..Len(fnIn.dirs) :
                startsWith(path_resolve(cwd, fnIn.path), path_resolve(cwd, fnIn.dirs[i])))

\* a relative path that leaves the allowed working directory by ".." was
\* refused
C4_Witness ==
    /\ fnOut.ran
    /\ cwd = <<"/", "a">>
    /\ fnIn.dirs = << <<"/", "a", "/">> >>
    /\ fnIn.path = <<".", ".", "/", "b">>
    /\ ~fnOut.result.ok

\* the characters the sanitizer is claimed to refuse
C5_Refused == {";", "&", "|", "BACKTICK", "$", "<", ">", "\\", "NUL"}

\* C5: the sanitizer fails on a value that holds a semicolon, ampersand,
\* bar, backtick, dollar, less-than, greater-than, backslash or null byte,
\* and returns every other value unchanged.
C5_SanitizerRefusesExactly ==
    fnOut.ran =>
        IF \E i \in 1..Len(fnIn) : fnIn[i] \in C5_Refused
        THEN ~fnOut.result.ok
        ELSE fnOut.result.ok /\ fnOut.result.value = fnIn

\* a value whose only refused character is the null byte was refused
C5_Witness ==
    /\ fnOut.ran
    /\ fnIn = <<"a", "NUL">>
    /\ ~fnOut.result.ok

\* the admitted calls that came before call c
Earlier(c) == {i \in 1..Len(admitLog) : admitLog[i].id < c}

\* those of them that were admitted less than 60 000 ms before time t
EarlierWithin(c, t) == {i \in Earlier(c) : t - admitLog[i].at < WindowMs}

\* C6: with the ceiling N the limiter compares with, a call that reaches
\* the rate limiter when N calls were admitted in the 60 000 ms before it
\* fails with RateLimitExceeded, and a call that finds fewer than N of them
\* there, the older ones having aged out of the window, is admitted.
C6_CeilingPerWindow ==
    \A c \in DOMAIN calls :
        "tool" \in calls[c].passed =>
            LET N == maxPerMinute(TheConfig)
                within == Cardinality(EarlierWithin(c, calls[c].at))
            IN  /\ within >= N => calls[c].response = Thrown("RateLimitExceeded", <<>>)
                /\ within < N => "rateLimit" \in calls[c].passed
                /\ "rateLimit" \in calls[c].passed =>
                       \E i \in 1..Len(admitLog) : admitLog[i] = [id |-> c, at |-> calls[c].at]

\* a call was admitted after as many calls as the ceiling had been
\* admitted, the oldest of them 60 000 ms or more before it
C6_Witness ==
    \E c \in DOMAIN calls :
        /\ "rateLimit" \in calls[c].passed
        /\ Cardinality(Earlier(c)) >= maxPerMinute(TheConfig)
        /\ \E i \in Earlier(c) : calls[c].at - admitLog[i].at >= WindowMs

\* the executor was reached: the handler called executeCommand
Executed(c) == c \in Found /\ "sanitization" \in calls[c].passed

\* C7: when an allowlist of commands is configured, empty or not, and the
\* command of the tool is not in it, executeCommand fails with
\* CommandNotAllowed and no child process is spawned.
C7_NotAllowedNeverSpawns ==
    \A c \in DOMAIN calls :
        (/\ Executed(c)
         /\ TheConfig.security.present
         /\ TheConfig.security.hasAllowedCommands
         /\ ToolOf(c).command \notin Range(TheConfig.security.allowedCommands))
        => /\ calls[c].response = IsError("CommandNotAllowed", <<ToolOf(c).command>>)
           /\ calls[c].child = "none"
           /\ ~calls[c].started

\* under an allowlist without entries a call reached the executor and was
\* refused
C7_Witness ==
    \E c \in DOMAIN calls :
        /\ Executed(c)
        /\ TheConfig.security.present
        /\ TheConfig.security.hasAllowedCommands
        /\ TheConfig.security.allowedCommands = <<>>
        /\ calls[c].response.error = "CommandNotAllowed"

\* C8: a call whose child process was still running when the timeout of
\* the tool expired, and was ended by the signal it was then sent, is not
\* answered with a transcript: it fails.
C8_TimeoutFailsCall ==
    \A c \in DOMAIN calls :
        (calls[c].timedOut /\ calls[c].child = "closed" /\ ~calls[c].exit.hasCode)
        => /\ calls[c].signalled
           /\ calls[c].response.kind = "isError"

\* C9: the bytes of stdout and stderr are counted together; once they
\* exceed the configured maxOutputSize of the tool the child is sent the
\* signal and the call fails with OutputSizeExceeded, and a call whose
\* output does not exceed it does not fail with OutputSizeExceeded.
C9_OutputCeiling ==
    \A c \in DOMAIN calls :
        calls[c].started =>
            LET written == calls[c].stdout + calls[c].stderr
                ceiling == ToolOf(c).maxOutputSize
            IN  /\ calls[c].outputSize = written
                /\ written > ceiling =>
                       /\ calls[c].signalled
                       /\ calls[c].response = IsError("OutputSizeExceeded", <<>>)
                /\ written <= ceiling => calls[c].response.error # "OutputSizeExceeded"

\* the parameters of tool t that the arguments args leave out
Omitted(t, args) == {i \in 1..Len(t.parameters) : t.parameters[i].key \notin DOMAIN args}

\* those that are required and have no default
Owed(t, args) ==
    {i \in Omitted(t, args) : t.parameters[i].required /\ ~t.parameters[i].hasDefault}

\* C10: of the parameters a call leaves out, one that is required and has
\* no default makes the validation fail, with MissingParameter naming it
\* when no parameter before it was supplied; in the validated mapping one
\* that is required has its default, and one that is not required is
\* absent, with or without default.
C10_MissingArguments ==
    \A c \in Found :
        "rateLimit" \in calls[c].passed =>
            LET t == ToolOf(c)
                args == calls[c].args
                validated == calls[c].validatedArgs
                Key(i) == t.parameters[i].key
            IN  /\ \A i \in Owed(t, args) :
                       /\ "validation" \notin calls[c].passed
                       /\ calls[c].response.kind = "thrown"
                       /\ (\A j \in 1..(i - 1) : j \in Omitted(t, args) \ Owed(t, args))
                          => calls[c].response = Thrown("MissingParameter", <<Key(i)>>)
                /\ "validation" \in calls[c].passed =>
                       \A i \in Omitted(t, args) :
                           IF t.parameters[i].required
                           THEN /\ Key(i) \in DOMAIN validated
                                /\ validated[Key(i)] = t.parameters[i].default
                           ELSE Key(i) \notin DOMAIN validated

\* a call that supplied one parameter passed the validation: the required
\* parameter it left out has its default, and the optional one, which has
\* a default too, is absent
C10_Witness ==
    \E c \in Found :
        /\ "validation" \in calls[c].passed
        /\ \E i \in Omitted(ToolOf(c), calls[c].args) :
               /\ ToolOf(c).parameters[i].required
               /\ calls[c].validatedArgs[ToolOf(c).parameters[i].key]
                      = ToolOf(c).parameters[i].default
        /\ \E i \in Omitted(ToolOf(c), calls[c].args) :
               /\ ~ToolOf(c).parameters[i].required
               /\ ToolOf(c).parameters[i].hasDefault
               /\ ToolOf(c).parameters[i].key \notin DOMAIN calls[c].validatedArgs

\* the literal of pattern p is found in s at a place its anchors allow
Occurs(p, s) ==
    \E i \in 0..Len(s) : \E j \in i..Len(s) :
        /\ SubSeq(s, i + 1, j) = p.lit
        /\ p.start => i = 0
        /\ p.end => j = Len(s)

\* C11, as claimed: a supplied string value passes the pattern of its
\* parameter when the pattern matches the whole value, and fails with
\* PatternMismatch when it does not.
C11_PatternMatchesWhole ==
    (fnOut.ran /\ PatternTruthy(fnIn.pattern)) =>
        IF fnIn.value = fnIn.pattern.lit
        THEN fnOut.result = Validated("v" :> Str(fnIn.value))
        ELSE fnOut.result = Invalid("PatternMismatch", "v")

\* C11, amended: a supplied string value passes the pattern of its
\* parameter when the pattern finds a match somewhere in the value, at the
\* start or the end only where the pattern says so with ^ or $, and fails
\* with PatternMismatch naming the parameter when it finds none.
C11_PatternSearched ==
    fnOut.ran =>
        IF Occurs(fnIn.pattern, fnIn.value)
        THEN fnOut.result = Validated("v" :> Str(fnIn.value))
        ELSE fnOut.result = Invalid("PatternMismatch", "v")

\* a value that the pattern ^a matches at its start only passed
C11_Witness ==
    /\ fnOut.ran
    /\ fnIn.pattern = Pattern(TRUE, <<"a">>, FALSE)
    /\ fnIn.value = <<"a", "b">>
    /\ fnOut.result.ok

\* the placeholders of a token
Placeholders(token) == {i \in DOMAIN token : token[i].ph}

RECURSIVE Spliced(_, _)
\* the text of a token with the text v in the place of its placeholders
Spliced(token, v) ==
    IF token = <<>> THEN <<>>
    ELSE (IF Head(token).ph THEN v ELSE Head(token).text) \o Spliced(Tail(token), v)

\* what the claim says a token with one placeholder or none expands to
Expansion(token, params) ==
    IF Placeholders(token) = {} THEN <<TokenText(token)>>
    ELSE LET name == token[CHOOSE i \in Placeholders(token) : TRUE].name
         IN  IF name \notin DOMAIN params THEN <<TokenText(token)>>
             ELSE IF params[name].t = "array" THEN params[name].a
             ELSE <<Spliced(token, String(params[name]))>>

RECURSIVE Expansions(_, _)
Expansions(template, params) ==
    IF template = <<>> THEN <<>>
    ELSE Expansion(Head(template), params) \o Expansions(Tail(template), params)

\* no value of the mapping holds a character the sanitizer refuses
AllClean(params) ==
    \A k \in DOMAIN params :
        /\ \A i \in DOMAIN params[k].s : params[k].s[i] \notin C5_Refused
        /\ \A e \in DOMAIN params[k].a :
               \A i \in DOMAIN params[k].a[e] : params[k].a[e][i] \notin C5_Refused

\* C12: for a template whose tokens hold one placeholder at most and
\* values that pass the sanitizer, the argument vector is the expansions of
\* the tokens in template order: the elements of an array value in array
\* order, the token with the placeholder replaced by a present scalar, the
\* token itself when the parameter is absent or there is no placeholder.
C12_ExpansionInOrder ==
    (/\ fnOut.ran
     /\ \A t \in DOMAIN fnIn.template : Cardinality(Placeholders(fnIn.template[t])) <= 1
     /\ AllClean(fnIn.params))
    => fnOut.result = Substituted(Expansions(fnIn.template, fnIn.params))

\* a scalar inside literal text, then an array of two elements
C12_Witness ==
    /\ fnOut.ran
    /\ fnIn.template = << <<Lit(<<"-", "o", "=">>), Ph("x"), Lit(<<".", "t">>)>>, <<Ph("f")>> >>
    /\ fnIn.params = ("x" :> Str(<<"a">>)) @@ ("f" :> Arr(<< <<"a">>, <<"b">> >>))
    /\ fnOut.result.args = << <<"-", "o", "=", "a", ".", "t">>, <<"a">>, <<"b">> >>

\* C13: every call that failed was answered with an error result that
\* carries the isError marker; no failure was thrown out of the handler.
C13_FailuresAreErrorResults ==
    \A c \in DOMAIN calls :
        calls[c].response.error # "" => calls[c].response.kind = "isError"

\* C14: when the configuration file cannot be loaded, the configuration
\* after loadConfiguration is the built-in one, whose only tool is echo;
\* the server is connected with a configuration loaded, and no call fails
\* with ConfigurationMissing.
C14_FallbackRegistry ==
    /\ (startPc # "loading" /\ configFile = Unreadable)
       => /\ Loaded
          /\ Len(TheConfig.tools) = 1
          /\ TheConfig.tools[1].name = "echo"
    /\ startPc = "connected" => Loaded
    /\ \A c \in DOMAIN calls : calls[c].response.error # "ConfigurationMissing"

\* the server started on an unreadable file ran its echo tool
C14_Witness ==
    /\ configFile = Unreadable
    /\ \E c \in Found :
           /\ ToolOf(c).name = "echo"
           /\ calls[c].response.kind = "result"

\* C15: the success flag of every result of the executor is true exactly
\* when its exit code is 0, also for a child that was ended by a signal.
C15_SuccessIffExitCodeZero ==
    \A c \in DOMAIN calls :
        calls[c].response.kind = "result"
        => (calls[c].response.result.success <=> calls[c].response.result.exitCode = 0)

\* C16: in the answer to tools/list, an array parameter whose configuration
\* file declares a pattern for its items is advertised with that pattern
\* under items, and with no pattern of its own.
C16_ItemsPatternAdvertised ==
    (advertised.listed /\ Loaded) =>
        \A i \in DOMAIN ConfigFiles[config].tools :
            \A j \in DOMAIN ConfigFiles[config].tools[i].parameters :
                LET declared == ConfigFiles[config].tools[i].parameters[j]
                    property == advertised.tools[i].inputSchema.properties[j]
                IN  (declared.type = "array" /\ declared.items.hasPattern)
                    => /\ property.key = declared.key
                       /\ property.items.present
                       /\ property.items.hasPattern
                       /\ property.items.pattern = declared.items.pattern
                       /\ ~PatternTruthy(property.pattern)

\* the failures of the validator, the path checks and the sanitizer
EarlyFailures ==
    {"MissingParameter", "TypeMismatch", "PatternMismatch", "SandboxViolation",
     "DangerousCharacter", "NullByte"}

\* C17: a call that fails in the validator, the path checks or the
\* sanitizer has recorded no timestamp in the window of the caller.
C17_FailedCallsNotCounted ==
    \A c \in DOMAIN calls :
        calls[c].response.error \in EarlyFailures
        => \A i \in DOMAIN admitLog : admitLog[i].id # c

\* the step is a tools/call request that reached the rate limiter
Checked == nextId' # nextId /\ "tool" \in calls'[nextId].passed

\* the list of the caller before and after the step
ListBefore == IF "default" \in DOMAIN rateLimiter THEN rateLimiter["default"] ELSE <<>>
ListAfter == rateLimiter'["default"]

\* the timestamps of the list that are less than 60 000 ms old
Unexpired(list) == SelectSeq(list, LAMBDA time : now - time < WindowMs)

\* C18: a rate-limit check that refuses the call leaves in the list of the
\* caller the unexpired timestamps it held, in their order, and nothing
\* else; a check that admits the call leaves them followed by the current
\* time.
C18_RejectKeepsAdmitAppends ==
    [][Checked =>
         IF calls'[nextId].response.error = "RateLimitExceeded"
         THEN /\ Len(Unexpired(ListBefore)) >= maxPerMinute(TheConfig)
              /\ ListAfter = Unexpired(ListBefore)
         ELSE /\ Len(Unexpired(ListBefore)) < maxPerMinute(TheConfig)
              /\ ListAfter = Append(Unexpired(ListBefore), now)]_vars

\* a call was refused and the list holds as many timestamps as the ceiling
C18_Witness ==
    /\ \E c \in DOMAIN calls : calls[c].response.error = "RateLimitExceeded"
    /\ "default" \in DOMAIN rateLimiter
    /\ Len(rateLimiter["default"]) = maxPerMinute(TheConfig)

\* C19: after every rate-limit check the list of the caller holds no
\* timestamp that is 60 000 ms old or older at the time of the check, and
\* no more timestamps than the ceiling the limiter compares with.
C19_ListFreshAndBounded ==
    [][Checked =>
         /\ \A i \in DOMAIN ListAfter : now - ListAfter[i] < WindowMs
         /\ Len(ListAfter) <= maxPerMinute(TheConfig)]_vars

\* the last call was checked 60 000 ms or more after an admitted one, and
\* the list holds no timestamp that old
C19_Witness ==
    /\ (nextId - 1) \in DOMAIN calls
    /\ "tool" \in calls[nextId - 1].passed
    /\ \E i \in DOMAIN admitLog : calls[nextId - 1].at - admitLog[i].at >= WindowMs
    /\ \A k \in DOMAIN rateLimiter["default"] :
           calls[nextId - 1].at - rateLimiter["default"][k] < WindowMs

\* the ceiling of the configuration: the configured value, 10 without a
\* security section
ConfiguredCeiling ==
    IF TheConfig.security.present THEN TheConfig.security.maxExecutionsPerMinute
    ELSE DefaultMaxPerMinute

\* C20: the limiter admits a call exactly when fewer calls than the
\* configured ceiling were admitted in the 60 000 ms before it, whatever
\* the configured value, and compares with 10 only when none is configured.
C20_ConfiguredCeiling ==
    \A c \in DOMAIN calls :
        "tool" \in calls[c].passed =>
            ("rateLimit" \in calls[c].passed
                <=> Cardinality(EarlierWithin(c, calls[c].at)) < ConfiguredCeiling)

\* the times of the admitted calls, in the order of their admission
AdmitTimes == [i \in DOMAIN admitLog |-> admitLog[i].at]

\* C21: also when calls overlap, the list of the caller is the admission
\* times from some admission on, in their order, every admission before it
\* being 60 000 ms old or older; and of the admitted calls no more than the
\* ceiling lie in the 60 000 ms before any of them.
C21_NoLostUpdate ==
    Loaded =>
        LET list == IF "default" \in DOMAIN rateLimiter THEN rateLimiter["default"] ELSE <<>>
            dropped == Len(AdmitTimes) - Len(list)
        IN  /\ dropped >= 0
            /\ list = SubSeq(AdmitTimes, dropped + 1, Len(AdmitTimes))
            /\ \A i \in 1..dropped : now - AdmitTimes[i] >= WindowMs
            /\ \A j \in DOMAIN AdmitTimes :
                   Cardinality({i \in 1..j : AdmitTimes[j] - AdmitTimes[i] < WindowMs})
                       <= maxPerMinute(TheConfig)

\* two admitted calls await their child process at the same time, and the
\* list holds the timestamps of both
C21_Witness ==
    \E c, d \in DOMAIN calls :
        /\ c < d
        /\ calls[c].child = "running" /\ calls[d].child = "running"
        /\ calls[c].promise = "pending" /\ calls[d].promise = "pending"
        /\ Len(rateLimiter["default"]) >= 2

\* the promise of executeCommand is settled
Settled(call) == call.promise \in {"resolved", "rejected"}

\* C22: the first close, spawn error or output-size breach of an invocation
\* settles its promise, and once the promise is settled no later event
\* changes its outcome or the answer of the call.
C22_SettlesOnce ==
    [][\A c \in (DOMAIN calls) \cap (DOMAIN calls') :
          /\ Settled(calls[c]) =>
                 /\ calls'[c].promise = calls[c].promise
                 /\ calls'[c].response = calls[c].response
                 /\ calls'[c].pc = "answered"
          /\ (calls[c].promise = "pending" /\ calls'[c] # calls[c]) =>
                 /\ calls'[c].child = "closed" =>
                        /\ calls'[c].promise = "resolved"
                        /\ calls'[c].response.kind = "result"
                 /\ calls'[c].child = "errored" =>
                        calls'[c].response = IsError("SpawnFailure", <<>>)
                 /\ calls'[c].outputSize > maxOutputSizeOf(ToolOf(c)) =>
                        calls'[c].response = IsError("OutputSizeExceeded", <<>>)]_vars

\* the close event came after an output-size breach and the call is still
\* answered with the breach
C22_Witness ==
    \E c \in DOMAIN calls :
        /\ calls[c].child = "closed"
        /\ calls[c].promise = "rejected"
        /\ calls[c].response = IsError("OutputSizeExceeded", <<>>)

Clean(text) == \A i \in DOMAIN text : text[i] \notin C5_Refused

\* a child process was spawned for the call
Spawned(call) == call.child # "none"

RECURSIVE SplicedEach(_, _)
\* the text of a token with every placeholder of a present parameter
\* replaced by the text of its value
SplicedEach(token, params) ==
    IF token = <<>> THEN <<>>
    ELSE LET piece == Head(token)
         IN  (IF piece.ph /\ piece.name \in DOMAIN params
              THEN String(params[piece.name])
              ELSE PieceText(piece)) \o SplicedEach(Tail(token), params)

\* the texts of the values that SplicedEach puts into a token
SplicedValues(token, params) ==
    { String(params[token[i].name]) :
          i \in {j \in Placeholders(token) : token[j].name \in DOMAIN params} }

\* arg is a token of the template as it is written
TokenUnchanged(arg, template) ==
    \E t \in DOMAIN template : arg = TokenText(template[t])

\* arg is a token of the template with values put into it, all of them clean
TokenWithCleanValues(arg, template, params) ==
    \E t \in DOMAIN template :
        /\ arg = SplicedEach(template[t], params)
        /\ \A v \in SplicedValues(template[t], params) : Clean(v)

\* arg is a clean element of an array value that a token of the template names
CleanArrayElement(arg, template, params) ==
    \E t \in DOMAIN template : \E i \in Placeholders(template[t]) :
        /\ template[t][i].name \in DOMAIN params
        /\ params[template[t][i].name].t = "array"
        /\ \E e \in DOMAIN params[template[t][i].name].a :
               arg = params[template[t][i].name].a[e]
        /\ Clean(arg)

\* C24: every argument of a spawned child process is a token of the
\* template as written, a token whose inserted parameter values all hold no
\* refused character, or an element of an array value that holds none.
C24_SpawnedArgsSanitized ==
    \A c \in DOMAIN calls :
        Spawned(calls[c]) =>
            \A i \in DOMAIN calls[c].processedArgs :
                \/ TokenUnchanged(calls[c].processedArgs[i], ToolOf(c).args)
                \/ TokenWithCleanValues(calls[c].processedArgs[i], ToolOf(c).args,
                                        calls[c].validatedArgs)
                \/ CleanArrayElement(calls[c].processedArgs[i], ToolOf(c).args,
                                     calls[c].validatedArgs)

\* a child was spawned with an element of an array value among its
\* arguments, next to a token whose parameter is absent
C24_Witness ==
    \E c \in DOMAIN calls :
        /\ Spawned(calls[c])
        /\ \E i \in DOMAIN calls[c].processedArgs :
               /\ CleanArrayElement(calls[c].processedArgs[i], ToolOf(c).args,
                                    calls[c].validatedArgs)
               /\ ~TokenUnchanged(calls[c].processedArgs[i], ToolOf(c).args)
        /\ \E t \in DOMAIN ToolOf(c).args :
               /\ Placeholders(ToolOf(c).args[t]) # {}
               /\ \E i \in DOMAIN calls[c].processedArgs :
                      calls[c].processedArgs[i] = TokenText(ToolOf(c).args[t])
====
